---- MODULE Spec2Model ----
(***************************************************************************)
(* Model of the body composition calculator of src/app/page.tsx:           *)
(* the component state (formData, baseResults, goalResults, selectedGoal), *)
(* its three handlers and the pure functions they call.                    *)
(*                                                                         *)
(* JavaScript numbers are modelled as tagged values: a finite number is    *)
(* held in fixed point, in units of 1/Scale, next to the three special     *)
(* values NaN, Infinity and -Infinity, which the arithmetic and the         *)
(* comparisons treat as IEEE 754 does.                                     *)
(***************************************************************************)
EXTENDS Integers, Sequences, FiniteSets, TLC

VARIABLES formData, baseResults, goalResults, selectedGoal, lastCall, probe

vars == <<formData, baseResults, goalResults, selectedGoal, lastCall, probe>>

(***************************************************************************)
(* JavaScript numbers                                                      *)
(***************************************************************************)

\* Fixed-point resolution: a finite number x is held as the integer x * Scale.
Scale == 10 ^ 4

Num(v) == [k |-> "num", v |-> v]

NaN == [k |-> "NaN", v |-> 0]

PosInf == [k |-> "Infinity", v |-> 0]

NegInf == [k |-> "-Infinity", v |-> 0]

\* A whole number n as a JavaScript number.
Whole(n) == Num(n * Scale)

IsNum(x) == x.k = "num"

IsNaN(x) == x.k = "NaN"

\* -1, 0 or 1: the sign of a number that is not NaN.
Sign(x) ==
  IF x.k = "Infinity" THEN 1
  ELSE IF x.k = "-Infinity" THEN -1
  ELSE IF x.v > 0 THEN 1 ELSE IF x.v < 0 THEN -1 ELSE 0

\* x < y on numbers; false when either is NaN.
JsLt(x, y) ==
  IF IsNaN(x) \/ IsNaN(y) THEN FALSE
  ELSE IF IsNum(x) /\ IsNum(y) THEN x.v < y.v
  ELSE IF x.k = y.k THEN FALSE
  ELSE x.k = "-Infinity" \/ y.k = "Infinity"

\* x <= y; false when either is NaN.
JsLe(x, y) ==
  IF IsNaN(x) \/ IsNaN(y) THEN FALSE ELSE JsLt(x, y) \/ x = y

\* x > y; false when either is NaN.
JsGt(x, y) == JsLt(y, x)

\* Math.min(x, y): NaN when either argument is NaN.
MathMin(x, y) ==
  IF IsNaN(x) \/ IsNaN(y) THEN NaN ELSE IF JsLt(y, x) THEN y ELSE x

\* Math.max(x, y): NaN when either argument is NaN.
MathMax(x, y) ==
  IF IsNaN(x) \/ IsNaN(y) THEN NaN ELSE IF JsLt(x, y) THEN y ELSE x

\* -x
JsNeg(x) ==
  IF IsNaN(x) THEN NaN
  ELSE IF x.k = "Infinity" THEN NegInf
  ELSE IF x.k = "-Infinity" THEN PosInf
  ELSE Num(-x.v)

\* x + y
JsAdd(x, y) ==
  IF IsNaN(x) \/ IsNaN(y) THEN NaN
  ELSE IF IsNum(x) /\ IsNum(y) THEN Num(x.v + y.v)
  ELSE IF IsNum(x) THEN y
  ELSE IF IsNum(y) THEN x
  ELSE IF x.k = y.k THEN x ELSE NaN

\* x - y
JsSub(x, y) == JsAdd(x, JsNeg(y))

\* floor(a * b / Scale) without an intermediate product beyond 32 bits.
MulFix(a, b) ==
  LET aq == a \div Scale
      ar == a % Scale
      bq == b \div Scale
      br == b % Scale
  IN  aq * b + ar * bq + ((ar * br) \div Scale)

\* x * y
JsMul(x, y) ==
  IF IsNaN(x) \/ IsNaN(y) THEN NaN
  ELSE IF IsNum(x) /\ IsNum(y) THEN Num(MulFix(x.v, y.v))
  ELSE IF Sign(x) = 0 \/ Sign(y) = 0 THEN NaN
  ELSE IF Sign(x) = Sign(y) THEN PosInf ELSE NegInf

\* The n fixed-point digits of r / b, for 0 <= r < b.
RECURSIVE DivDigits(_, _, _)
DivDigits(r, b, n) ==
  IF n = 0 THEN 0
  ELSE LET t == r * 10
       IN  (t \div b) * (10 ^ (n - 1)) + DivDigits(t % b, b, n - 1)

\* floor(a * Scale / b) for b > 0, by long division.
DivFix(a, b) == (a \div b) * Scale + DivDigits(a % b, b, 4)

\* x / y
JsDiv(x, y) ==
  IF IsNaN(x) \/ IsNaN(y) THEN NaN
  ELSE IF IsNum(x) /\ IsNum(y) THEN
    IF y.v > 0 THEN Num(DivFix(x.v, y.v))
    ELSE IF y.v < 0 THEN Num(DivFix(-x.v, -y.v))
    ELSE IF x.v = 0 THEN NaN
    ELSE IF x.v > 0 THEN PosInf ELSE NegInf
  ELSE IF IsNum(x) THEN Num(0)
  ELSE IF IsNum(y) THEN
    IF (Sign(x) = 1) = (y.v >= 0) THEN PosInf ELSE NegInf
  ELSE NaN

\* The number of binary digits computed for the fraction of a logarithm.
LogBits == 14

\* The fraction of log10(m / Scale), for Scale <= m < 10 * Scale, as a
\* numerator over 2 ^ bits: squaring doubles the logarithm, and a square of
\* 10 or more yields a binary digit 1.
RECURSIVE LogFrac(_, _)
LogFrac(m, bits) ==
  IF bits = 0 THEN 0
  ELSE LET sq == MulFix(m, m)
       IN  IF sq >= 10 * Scale
           THEN 2 ^ (bits - 1) + LogFrac(sq \div 10, bits - 1)
           ELSE LogFrac(sq, bits - 1)

\* log10(v / Scale) * Scale for v > 0: the decimal exponent e, plus the
\* fraction of the mantissa brought into [1, 10).
RECURSIVE Log10Fix(_, _)
Log10Fix(v, e) ==
  IF v < Scale THEN Log10Fix(v * 10, e - 1)
  ELSE IF v >= 10 * Scale THEN Log10Fix(v \div 10, e + 1)
  ELSE e * Scale + ((LogFrac(v, LogBits) * Scale) \div (2 ^ LogBits))

\* Math.log10(x): NaN below zero, -Infinity at zero.
MathLog10(x) ==
  IF IsNaN(x) THEN NaN
  ELSE IF x.k = "Infinity" THEN PosInf
  ELSE IF x.k = "-Infinity" THEN NaN
  ELSE IF x.v < 0 THEN NaN
  ELSE IF x.v = 0 THEN NegInf
  ELSE Num(Log10Fix(x.v, 0))

(***************************************************************************)
(* Constant tables                                                         *)
(***************************************************************************)

NULL == [k |-> "null"]

Genders == {"male", "female"}

ExerciseLevels == {"sedentary", "1-2x", "3-5x", "daily", "twice-daily"}

\* The keys of the goal buttons, in the order the page lists them.
GoalOptions ==
  <<"maintenance", "fat-loss", "muscle-gain", "weight-gain", "recomposition">>

GoalKeys == {GoalOptions[i] : i \in 1..Len(GoalOptions)}

EXERCISE_MULTIPLIERS ==
  ("sedentary" :> Num(12000)) @@ ("1-2x" :> Num(15000)) @@
  ("3-5x" :> Num(17000)) @@ ("daily" :> Num(19500)) @@
  ("twice-daily" :> Num(22000))

ACTIVITY_FACTORS ==
  ("sedentary" :> Num(12000)) @@ ("1-2x" :> Num(13750)) @@
  ("3-5x" :> Num(15500)) @@ ("daily" :> Num(17250)) @@
  ("twice-daily" :> Num(19000))

\* GOAL_ADJUSTMENTS with a calorie deficit for recomposition and a protein
\* cut for weight gain.
GOAL_ADJUSTMENTS_TwoEntriesLowered ==
  ("maintenance" :> [calorie |-> Num(10000), protein |-> Num(10000)]) @@
  ("fat-loss" :> [calorie |-> Num(8000), protein |-> Num(12000)]) @@
  ("muscle-gain" :> [calorie |-> Num(11000), protein |-> Num(12500)]) @@
  ("weight-gain" :> [calorie |-> Num(12000), protein |-> Num(9000)]) @@
  ("recomposition" :> [calorie |-> Num(9000), protein |-> Num(12500)])

GOAL_ADJUSTMENTS ==
  ("maintenance" :> [calorie |-> Num(10000), protein |-> Num(10000)]) @@
  ("fat-loss" :> [calorie |-> Num(8000), protein |-> Num(12000)]) @@
  ("muscle-gain" :> [calorie |-> Num(11000), protein |-> Num(12500)]) @@
  ("weight-gain" :> [calorie |-> Num(12000), protein |-> Num(12000)]) @@
  ("recomposition" :> [calorie |-> Num(10000), protein |-> Num(12500)])

BODY_FAT_CATEGORIES ==
  ("male" :>
     << [max |-> Whole(13), category |-> "Excellent", color |-> "green"],
        [max |-> Whole(16), category |-> "Good", color |-> "blue"],
        [max |-> Whole(20), category |-> "Average", color |-> "yellow"],
        [max |-> Whole(22), category |-> "Above Average", color |-> "orange"],
        [max |-> PosInf, category |-> "Obese", color |-> "red"] >>) @@
  ("female" :>
     << [max |-> Whole(16), category |-> "Excellent", color |-> "green"],
        [max |-> Whole(19), category |-> "Good", color |-> "blue"],
        [max |-> Whole(28), category |-> "Average", color |-> "yellow"],
        [max |-> Whole(33), category |-> "Above Average", color |-> "orange"],
        [max |-> PosInf, category |-> "Obese", color |-> "red"] >>)

\* The useState initial value of formData.
InitialFormData ==
  [gender |-> "male", age |-> Whole(25), weight |-> Whole(70),
   height |-> Whole(175), neck |-> Whole(35), waist |-> Whole(80),
   hip |-> Whole(95), exerciseLevel |-> "sedentary"]

(***************************************************************************)
(* Pure functions of the component                                         *)
(***************************************************************************)

\* calculateBodyFat without the conversion from cm to inches.
calculateBodyFat_NoInches(data) ==
  IF data.gender = "male"
  THEN JsAdd(JsSub(JsMul(Num(860100),
                         MathLog10(JsSub(data.waist, data.neck))),
                   JsMul(Num(700410), MathLog10(data.height))),
             Num(367600))
  ELSE JsSub(JsSub(JsMul(Num(1632050),
                         MathLog10(JsSub(JsAdd(data.waist, data.hip),
                                         data.neck))),
                   JsMul(Num(976840), MathLog10(data.height))),
             Num(783870))

\* The U.S. Navy formula on measurements converted from cm to inches.
calculateBodyFat(data) ==
  LET waistInches == JsDiv(data.waist, Num(25400))
      neckInches == JsDiv(data.neck, Num(25400))
      heightInches == JsDiv(data.height, Num(25400))
      hipInches == JsDiv(data.hip, Num(25400))
  IN  IF data.gender = "male"
      THEN JsAdd(JsSub(JsMul(Num(860100),
                             MathLog10(JsSub(waistInches, neckInches))),
                       JsMul(Num(700410), MathLog10(heightInches))),
                 Num(367600))
      ELSE JsSub(JsSub(JsMul(Num(1632050),
                             MathLog10(JsSub(JsAdd(waistInches, hipInches),
                                             neckInches))),
                       JsMul(Num(976840), MathLog10(heightInches))),
                 Num(783870))

\* categories.find(cat => bodyFat <= cat.max): the index of the first match,
\* 0 for undefined.
FindCategory(categories, bodyFat) ==
  LET hits == {i \in 1..Len(categories) : JsLe(bodyFat, categories[i].max)}
  IN  IF hits = {} THEN 0 ELSE CHOOSE i \in hits : \A j \in hits : i <= j

\* getBodyFatCategory with the bounds taken as exclusive (< for <=).
getBodyFatCategory_Exclusive(bodyFat, gender) ==
  LET categories == BODY_FAT_CATEGORIES[gender]
      hits == {i \in 1..Len(categories) : JsLt(bodyFat, categories[i].max)}
  IN  IF hits = {} THEN categories[Len(categories)]
      ELSE categories[CHOOSE i \in hits : \A j \in hits : i <= j]

\* getBodyFatCategory with the comparison turned round (>= for <=).
getBodyFatCategory_Reversed(bodyFat, gender) ==
  LET categories == BODY_FAT_CATEGORIES[gender]
      hits == {i \in 1..Len(categories) : JsLe(categories[i].max, bodyFat)}
  IN  IF hits = {} THEN categories[Len(categories)]
      ELSE categories[CHOOSE i \in hits : \A j \in hits : i <= j]

getBodyFatCategory(bodyFat, gender) ==
  LET categories == BODY_FAT_CATEGORIES[gender]
      found == FindCategory(categories, bodyFat)
  IN  IF found # 0 THEN categories[found] ELSE categories[Len(categories)]

\* getAllowedGoals with the Obese band starting at its threshold (>= for >).
getAllowedGoals_ObeseAtThreshold(bodyFat, gender) ==
  LET isObese == \/ (gender = "male" /\ JsLe(Whole(22), bodyFat))
                 \/ (gender = "female" /\ JsLe(Whole(33), bodyFat))
      isAboveAverage ==
        \/ (gender = "male" /\ JsGt(bodyFat, Whole(20))
                            /\ JsLe(bodyFat, Whole(22)))
        \/ (gender = "female" /\ JsGt(bodyFat, Whole(28))
                              /\ JsLe(bodyFat, Whole(33)))
  IN  IF isObese THEN
        [allowed |-> <<"fat-loss">>,
         message |-> "Due to elevated body fat levels, only Fat Loss goal is recommended for health."]
      ELSE IF isAboveAverage THEN
        [allowed |-> <<"maintenance", "fat-loss", "muscle-gain", "recomposition">>,
         message |-> "Weight Gain is not recommended at current body fat levels."]
      ELSE
        [allowed |-> <<"maintenance", "fat-loss", "muscle-gain", "weight-gain", "recomposition">>,
         message |-> "All goals are available based on your current body composition."]

\* getAllowedGoals with the thresholds of the two genders exchanged.
getAllowedGoals_GendersSwapped(bodyFat, gender) ==
  LET isObese == \/ (gender = "female" /\ JsGt(bodyFat, Whole(22)))
                 \/ (gender = "male" /\ JsGt(bodyFat, Whole(33)))
      isAboveAverage ==
        \/ (gender = "female" /\ JsGt(bodyFat, Whole(20))
                              /\ JsLe(bodyFat, Whole(22)))
        \/ (gender = "male" /\ JsGt(bodyFat, Whole(28))
                            /\ JsLe(bodyFat, Whole(33)))
  IN  IF isObese THEN
        [allowed |-> <<"fat-loss">>,
         message |-> "Due to elevated body fat levels, only Fat Loss goal is recommended for health."]
      ELSE IF isAboveAverage THEN
        [allowed |-> <<"maintenance", "fat-loss", "muscle-gain", "recomposition">>,
         message |-> "Weight Gain is not recommended at current body fat levels."]
      ELSE
        [allowed |-> <<"maintenance", "fat-loss", "muscle-gain", "weight-gain", "recomposition">>,
         message |-> "All goals are available based on your current body composition."]

\* getAllowedGoals that leaves maintenance alone to the obese.
getAllowedGoals_MaintenanceWhenObese(bodyFat, gender) ==
  LET isObese == \/ (gender = "male" /\ JsGt(bodyFat, Whole(22)))
                 \/ (gender = "female" /\ JsGt(bodyFat, Whole(33)))
      isAboveAverage ==
        \/ (gender = "male" /\ JsGt(bodyFat, Whole(20))
                            /\ JsLe(bodyFat, Whole(22)))
        \/ (gender = "female" /\ JsGt(bodyFat, Whole(28))
                              /\ JsLe(bodyFat, Whole(33)))
  IN  IF isObese THEN
        [allowed |-> <<"maintenance">>,
         message |-> "Due to elevated body fat levels, only Fat Loss goal is recommended for health."]
      ELSE IF isAboveAverage THEN
        [allowed |-> <<"maintenance", "fat-loss", "muscle-gain", "recomposition">>,
         message |-> "Weight Gain is not recommended at current body fat levels."]
      ELSE
        [allowed |-> <<"maintenance", "fat-loss", "muscle-gain", "weight-gain", "recomposition">>,
         message |-> "All goals are available based on your current body composition."]

getAllowedGoals(bodyFat, gender) ==
  LET isObese == \/ (gender = "male" /\ JsGt(bodyFat, Whole(22)))
                 \/ (gender = "female" /\ JsGt(bodyFat, Whole(33)))
      isAboveAverage ==
        \/ (gender = "male" /\ JsGt(bodyFat, Whole(20))
                            /\ JsLe(bodyFat, Whole(22)))
        \/ (gender = "female" /\ JsGt(bodyFat, Whole(28))
                              /\ JsLe(bodyFat, Whole(33)))
  IN  IF isObese THEN
        [allowed |-> <<"fat-loss">>,
         message |-> "Due to elevated body fat levels, only Fat Loss goal is recommended for health."]
      ELSE IF isAboveAverage THEN
        [allowed |-> <<"maintenance", "fat-loss", "muscle-gain", "recomposition">>,
         message |-> "Weight Gain is not recommended at current body fat levels."]
      ELSE
        [allowed |-> <<"maintenance", "fat-loss", "muscle-gain", "weight-gain", "recomposition">>,
         message |-> "All goals are available based on your current body composition."]

\* BaseResultsOf with the two activity tables conflated: the calories are
\* scaled by the protein multiplier.
BaseResultsOf_ConflatedTables(data) ==
  LET bodyFatPercentage ==
        MathMax(Num(0), MathMin(Whole(50), calculateBodyFat(data)))
      leanBodyMass ==
        JsMul(data.weight,
              JsSub(Whole(1), JsDiv(bodyFatPercentage, Whole(100))))
      bmr == JsAdd(Whole(370), JsMul(Num(216000), leanBodyMass))
      baseCalories == JsMul(bmr, EXERCISE_MULTIPLIERS[data.exerciseLevel])
      baseProtein ==
        JsMul(data.weight, EXERCISE_MULTIPLIERS[data.exerciseLevel])
      category == getBodyFatCategory(bodyFatPercentage, data.gender)
      goalRestrictions == getAllowedGoals(bodyFatPercentage, data.gender)
  IN  [bodyFatPercentage |-> bodyFatPercentage,
       bodyFatCategory |-> category.category,
       leanBodyMass |-> leanBodyMass,
       baseCalories |-> baseCalories,
       baseProtein |-> baseProtein,
       allowedGoals |-> goalRestrictions.allowed,
       restrictionMessage |-> goalRestrictions.message]

\* BaseResultsOf with the lean mass taken from the raw formula value, not
\* from the clamped one.
BaseResultsOf_LeanFromRaw(data) ==
  LET bodyFatPercentage ==
        MathMax(Num(0), MathMin(Whole(50), calculateBodyFat(data)))
      leanBodyMass ==
        JsMul(data.weight,
              JsSub(Whole(1), JsDiv(calculateBodyFat(data), Whole(100))))
      bmr == JsAdd(Whole(370), JsMul(Num(216000), leanBodyMass))
      baseCalories == JsMul(bmr, ACTIVITY_FACTORS[data.exerciseLevel])
      baseProtein ==
        JsMul(data.weight, EXERCISE_MULTIPLIERS[data.exerciseLevel])
      category == getBodyFatCategory(bodyFatPercentage, data.gender)
      goalRestrictions == getAllowedGoals(bodyFatPercentage, data.gender)
  IN  [bodyFatPercentage |-> bodyFatPercentage,
       bodyFatCategory |-> category.category,
       leanBodyMass |-> leanBodyMass,
       baseCalories |-> baseCalories,
       baseProtein |-> baseProtein,
       allowedGoals |-> goalRestrictions.allowed,
       restrictionMessage |-> goalRestrictions.message]

\* BaseResultsOf with the upper clamp only.
BaseResultsOf_NoLowerClamp(data) ==
  LET bodyFatPercentage == MathMin(Whole(50), calculateBodyFat(data))
      leanBodyMass ==
        JsMul(data.weight,
              JsSub(Whole(1), JsDiv(bodyFatPercentage, Whole(100))))
      bmr == JsAdd(Whole(370), JsMul(Num(216000), leanBodyMass))
      baseCalories == JsMul(bmr, ACTIVITY_FACTORS[data.exerciseLevel])
      baseProtein ==
        JsMul(data.weight, EXERCISE_MULTIPLIERS[data.exerciseLevel])
      category == getBodyFatCategory(bodyFatPercentage, data.gender)
      goalRestrictions == getAllowedGoals(bodyFatPercentage, data.gender)
  IN  [bodyFatPercentage |-> bodyFatPercentage,
       bodyFatCategory |-> category.category,
       leanBodyMass |-> leanBodyMass,
       baseCalories |-> baseCalories,
       baseProtein |-> baseProtein,
       allowedGoals |-> goalRestrictions.allowed,
       restrictionMessage |-> goalRestrictions.message]

\* BaseResultsOf with an age term in the metabolic rate.
BaseResultsOf_AgeInBmr(data) ==
  LET bodyFatPercentage ==
        MathMax(Num(0), MathMin(Whole(50), calculateBodyFat(data)))
      leanBodyMass ==
        JsMul(data.weight,
              JsSub(Whole(1), JsDiv(bodyFatPercentage, Whole(100))))
      bmr == JsSub(JsAdd(Whole(370), JsMul(Num(216000), leanBodyMass)),
                   JsMul(Whole(5), data.age))
      baseCalories == JsMul(bmr, ACTIVITY_FACTORS[data.exerciseLevel])
      baseProtein ==
        JsMul(data.weight, EXERCISE_MULTIPLIERS[data.exerciseLevel])
      category == getBodyFatCategory(bodyFatPercentage, data.gender)
      goalRestrictions == getAllowedGoals(bodyFatPercentage, data.gender)
  IN  [bodyFatPercentage |-> bodyFatPercentage,
       bodyFatCategory |-> category.category,
       leanBodyMass |-> leanBodyMass,
       baseCalories |-> baseCalories,
       baseProtein |-> baseProtein,
       allowedGoals |-> goalRestrictions.allowed,
       restrictionMessage |-> goalRestrictions.message]

\* The BaseResults object calculateBaseStats builds from the form data.
BaseResultsOf(data) ==
  LET bodyFatPercentage ==
        MathMax(Num(0), MathMin(Whole(50), calculateBodyFat(data)))
      leanBodyMass ==
        JsMul(data.weight,
              JsSub(Whole(1), JsDiv(bodyFatPercentage, Whole(100))))
      bmr == JsAdd(Whole(370), JsMul(Num(216000), leanBodyMass))
      baseCalories == JsMul(bmr, ACTIVITY_FACTORS[data.exerciseLevel])
      baseProtein ==
        JsMul(data.weight, EXERCISE_MULTIPLIERS[data.exerciseLevel])
      category == getBodyFatCategory(bodyFatPercentage, data.gender)
      goalRestrictions == getAllowedGoals(bodyFatPercentage, data.gender)
  IN  [bodyFatPercentage |-> bodyFatPercentage,
       bodyFatCategory |-> category.category,
       leanBodyMass |-> leanBodyMass,
       baseCalories |-> baseCalories,
       baseProtein |-> baseProtein,
       allowedGoals |-> goalRestrictions.allowed,
       restrictionMessage |-> goalRestrictions.message]

\* GoalResultsOf with the calorie multiplier applied to both targets.
GoalResultsOf_CalorieForBoth(base, goal) ==
  LET goalAdjustment == GOAL_ADJUSTMENTS[goal]
  IN  [goal |-> goal,
       revisedCalorieTarget |-> JsMul(base.baseCalories, goalAdjustment.calorie),
       revisedProteinTarget |-> JsMul(base.baseProtein, goalAdjustment.calorie)]

\* The GoalResults object calculateGoalResults builds for a goal key.
GoalResultsOf(base, goal) ==
  LET goalAdjustment == GOAL_ADJUSTMENTS[goal]
      revisedCalorieTarget == JsMul(base.baseCalories, goalAdjustment.calorie)
      revisedProteinTarget == JsMul(base.baseProtein, goalAdjustment.protein)
  IN  [goal |-> goal,
       revisedCalorieTarget |-> revisedCalorieTarget,
       revisedProteinTarget |-> revisedProteinTarget]

\* allowedGoals.includes(goal)
Includes(allowedGoals, goal) ==
  \E i \in 1..Len(allowedGoals) : allowedGoals[i] = goal

(***************************************************************************)
(* Handlers                                                                *)
(***************************************************************************)

\* calculateBaseStats without the reset of the goal step.
calculateBaseStats_KeepGoal ==
  /\ baseResults' = BaseResultsOf(formData)
  /\ lastCall' = "calculateBaseStats"
  /\ UNCHANGED <<formData, goalResults, selectedGoal, probe>>

\* calculateBaseStats that keeps a base result it already holds.
calculateBaseStats_Cached ==
  /\ baseResults' = IF baseResults = NULL THEN BaseResultsOf(formData)
                    ELSE baseResults
  /\ goalResults' = NULL
  /\ selectedGoal' = ""
  /\ lastCall' = "calculateBaseStats"
  /\ UNCHANGED <<formData, probe>>

\* calculateBaseStats that drops the goal result but keeps the selection.
calculateBaseStats_KeepSelection ==
  /\ baseResults' = BaseResultsOf(formData)
  /\ goalResults' = NULL
  /\ lastCall' = "calculateBaseStats"
  /\ UNCHANGED <<formData, selectedGoal, probe>>

calculateBaseStats ==
  /\ baseResults' = BaseResultsOf(formData)
  /\ goalResults' = NULL
  /\ selectedGoal' = ""
  /\ lastCall' = "calculateBaseStats"
  /\ UNCHANGED <<formData, probe>>

\* calculateGoalResults with the selection recorded before the null guard.
calculateGoalResults_SelectBeforeGuard(goal) ==
  /\ lastCall' = "calculateGoalResults"
  /\ selectedGoal' = goal
  /\ IF baseResults = NULL
     THEN UNCHANGED goalResults
     ELSE goalResults' = GoalResultsOf(baseResults, goal)
  /\ UNCHANGED <<formData, baseResults, probe>>

\* calculateGoalResults that ignores a goal outside allowedGoals.
calculateGoalResults_Validating(goal) ==
  /\ lastCall' = "calculateGoalResults"
  /\ IF baseResults = NULL \/ ~Includes(baseResults.allowedGoals, goal)
     THEN UNCHANGED <<goalResults, selectedGoal>>
     ELSE /\ goalResults' = GoalResultsOf(baseResults, goal)
          /\ selectedGoal' = goal
  /\ UNCHANGED <<formData, baseResults, probe>>

\* calculateGoalResults that stores the targets without the selection.
calculateGoalResults_NoSelect(goal) ==
  /\ lastCall' = "calculateGoalResults"
  /\ IF baseResults = NULL
     THEN UNCHANGED goalResults
     ELSE goalResults' = GoalResultsOf(baseResults, goal)
  /\ UNCHANGED <<formData, baseResults, selectedGoal, probe>>

\* calculateGoalResults that adjusts the targets already held, if any.
calculateGoalResults_Chained(goal) ==
  /\ lastCall' = "calculateGoalResults"
  /\ IF baseResults = NULL
     THEN UNCHANGED <<goalResults, selectedGoal>>
     ELSE /\ goalResults' =
               IF goalResults = NULL
               THEN GoalResultsOf(baseResults, goal)
               ELSE [goal |-> goal,
                     revisedCalorieTarget |->
                       JsMul(goalResults.revisedCalorieTarget,
                             GOAL_ADJUSTMENTS[goal].calorie),
                     revisedProteinTarget |->
                       JsMul(goalResults.revisedProteinTarget,
                             GOAL_ADJUSTMENTS[goal].protein)]
          /\ selectedGoal' = goal
  /\ UNCHANGED <<formData, baseResults, probe>>

calculateGoalResults(goal) ==
  /\ lastCall' = "calculateGoalResults"
  /\ IF baseResults = NULL
     THEN UNCHANGED <<goalResults, selectedGoal>>
     ELSE /\ goalResults' = GoalResultsOf(baseResults, goal)
          /\ selectedGoal' = goal
  /\ UNCHANGED <<formData, baseResults, probe>>

\* handleInputChange that also recomputes the held base results.
handleInputChange_Recompute(field, value) ==
  /\ formData' = [formData EXCEPT ![field] = value]
  /\ baseResults' = IF baseResults = NULL THEN NULL
                    ELSE BaseResultsOf([formData EXCEPT ![field] = value])
  /\ lastCall' = "handleInputChange"
  /\ UNCHANGED <<goalResults, selectedGoal, probe>>

\* handleInputChange without the spread of the previous form data.
handleInputChange_ResetOthers(field, value) ==
  /\ formData' = [InitialFormData EXCEPT ![field] = value]
  /\ lastCall' = "handleInputChange"
  /\ UNCHANGED <<baseResults, goalResults, selectedGoal, probe>>

handleInputChange(field, value) ==
  /\ formData' = [formData EXCEPT ![field] = value]
  /\ lastCall' = "handleInputChange"
  /\ UNCHANGED <<baseResults, goalResults, selectedGoal, probe>>

(***************************************************************************)
(* Inputs                                                                  *)
(***************************************************************************)

\* The first n entries of a sequence of candidate values, as a set.
FirstOf(choices, n) ==
  {choices[i] : i \in 1..(IF n < Len(choices) THEN n ELSE Len(choices))}

\* Waist values in cm a user may type; with neck 35 and height 175 a male
\* gets Good, Obese, a negative logarithm argument, Above Average, a zero
\* logarithm argument, and raw values below 0 and above 50.
WaistChoices == <<80, 100, 30, 88, 35, 60, 150, 120, 90, 40, 70>>

\* How many waist values the page model and the calculation model draw from.
NumPageWaists == 3

NumCalcWaists == 10

\* Events of the form widgets: the field and the value handed to
\* handleInputChange (numbers pass through Number(e.target.value)).
InputEvents ==
  {[field |-> "gender", value |-> g] : g \in Genders}
  \cup {[field |-> "age", value |-> Whole(n)] : n \in {25, 40}}
  \cup {[field |-> "weight", value |-> Whole(n)] : n \in {70, 90}}
  \cup {[field |-> "height", value |-> Whole(n)] : n \in {175}}
  \cup {[field |-> "neck", value |-> Whole(n)] : n \in {35}}
  \cup {[field |-> "waist", value |-> Whole(n)] :
          n \in FirstOf(WaistChoices, NumPageWaists)}
  \cup {[field |-> "hip", value |-> Whole(n)] : n \in {95, 30}}
  \cup {[field |-> "exerciseLevel", value |-> l] : l \in {"sedentary", "daily"}}

\* Form contents the calculation is applied to, degenerate ones included.
Measurements ==
  [gender : Genders,
   age : {Whole(25)},
   weight : {Whole(n) : n \in {70, 90, 0}},
   height : {Whole(n) : n \in {175, 160, 0}},
   neck : {Whole(n) : n \in {35, 40, 70}},
   waist : {Whole(n) : n \in FirstOf(WaistChoices, NumCalcWaists)},
   hip : {Whole(n) : n \in {95, 30}},
   exerciseLevel : ExerciseLevels]

\* Body-fat values the classifiers are probed with: 0 to 50 and beyond in
\* steps of 0.5, every threshold with its two neighbours, and the special
\* values.
NumProbeSteps == 101

ProbeBodyFat ==
  {Num(i * (Scale \div 2)) : i \in 0..NumProbeSteps}
  \cup {Num(t * Scale + d) : t \in {13, 16, 19, 20, 22, 28, 33}, d \in {-1, 0, 1}}
  \cup {Num(-1), NaN, PosInf, NegInf}

(***************************************************************************)
(* The page: state after construction, and the events of its widgets       *)
(***************************************************************************)

Init ==
  /\ formData = InitialFormData
  /\ baseResults = NULL
  /\ goalResults = NULL
  /\ selectedGoal = ""
  /\ lastCall = "none"
  /\ probe = NULL

\* A form widget reports a change; the hip input exists for females only.
InputChange ==
  \E e \in InputEvents :
    /\ e.field = "hip" => formData.gender = "female"
    /\ handleInputChange(e.field, e.value)

\* The "Calculate My Body Stats" button.
CalculateClick == calculateBaseStats

\* A goal button: rendered once baseResults is held, disabled unless allowed.
GoalClick ==
  \E i \in 1..Len(GoalOptions) :
    /\ baseResults # NULL
    /\ Includes(baseResults.allowedGoals, GoalOptions[i])
    /\ calculateGoalResults(GoalOptions[i])

Next == InputChange \/ CalculateClick \/ GoalClick

Spec == Init /\ [][Next]_vars

(***************************************************************************)
(* The handlers called directly, whatever the page would allow             *)
(***************************************************************************)

GoalCall == \E goal \in GoalKeys : calculateGoalResults(goal)

NextApi == InputChange \/ CalculateClick \/ GoalCall

SpecApi == Init /\ [][NextApi]_vars

(***************************************************************************)
(* The calculation applied to a range of form contents                     *)
(***************************************************************************)

InitCalc ==
  /\ formData \in Measurements
  /\ baseResults = NULL
  /\ goalResults = NULL
  /\ selectedGoal = ""
  /\ lastCall = "none"
  /\ probe = NULL

NextCalc == CalculateClick \/ GoalCall

SpecCalc == InitCalc /\ [][NextCalc]_vars

(***************************************************************************)
(* The two classifiers applied to a range of body-fat values               *)
(***************************************************************************)

InitProbe ==
  /\ formData = InitialFormData
  /\ baseResults = NULL
  /\ goalResults = NULL
  /\ selectedGoal = ""
  /\ lastCall = "none"
  /\ probe \in [bodyFat : ProbeBodyFat, gender : Genders,
                category : {NULL}, goalRestrictions : {NULL}]

Classify ==
  /\ probe.category = NULL
  /\ probe' = [probe EXCEPT
                 !.category = getBodyFatCategory(probe.bodyFat, probe.gender),
                 !.goalRestrictions = getAllowedGoals(probe.bodyFat, probe.gender)]
  /\ UNCHANGED <<formData, baseResults, goalResults, selectedGoal, lastCall>>

SpecProbe == InitProbe /\ [][Classify]_vars

(***************************************************************************)
(* Properties                                                              *)
(***************************************************************************)

\* A finite number held in fixed point between lo and hi (whole numbers).
Within(x, lo, hi) == x.k = "num" /\ lo * Scale <= x.v /\ x.v <= hi * Scale

\* x > t, for a whole number t, without the model's comparison operators.
Exceeds(x, t) == x.k = "Infinity" \/ (x.k = "num" /\ x.v > t * Scale)

\* x <= t, for a whole number t.
AtMost(x, t) == x.k = "-Infinity" \/ (x.k = "num" /\ x.v <= t * Scale)

\* The elements of a sequence.
Elements(seq) == {seq[i] : i \in 1..Len(seq)}

\* All numeric fields of the form are above zero.
ValidMeasurement(data) ==
  \A f \in {"age", "weight", "height", "neck", "waist", "hip"} :
    data[f].k = "num" /\ data[f].v > 0

\* The argument of the first logarithm is negative: waist < neck for a male,
\* waist + hip < neck for a female (in cm, before the conversion).
LogArgumentNegative(data) ==
  IF data.gender = "male"
  THEN data.waist.v < data.neck.v
  ELSE data.waist.v + data.hip.v < data.neck.v

\* C1: for every measurement whose numeric fields are all above zero, the
\* bodyFatPercentage stored by calculateBaseStats is a number in [0, 50].
C1_BodyFatWithinBounds ==
  (baseResults # NULL /\ ValidMeasurement(formData))
    => Within(baseResults.bodyFatPercentage, 0, 50)

\* C2: when the logarithm argument is negative, the bodyFatPercentage stored
\* by calculateBaseStats is 0.
C2_NegativeArgumentStoresZero ==
  (baseResults # NULL /\ LogArgumentNegative(formData))
    => baseResults.bodyFatPercentage = Num(0)

\* The three goal sets with their messages.
OnlyFatLoss ==
  [allowed |-> {"fat-loss"},
   message |-> "Due to elevated body fat levels, only Fat Loss goal is recommended for health."]

NoWeightGain ==
  [allowed |-> {"maintenance", "fat-loss", "muscle-gain", "recomposition"},
   message |-> "Weight Gain is not recommended at current body fat levels."]

AllGoals ==
  [allowed |-> {"maintenance", "fat-loss", "muscle-gain", "weight-gain",
                "recomposition"},
   message |-> "All goals are available based on your current body composition."]

\* The band of section 4.3 a (gender, body fat) pair falls in.
ExpectedGoals(bodyFat, gender) ==
  IF \/ (gender = "male" /\ Exceeds(bodyFat, 22))
     \/ (gender = "female" /\ Exceeds(bodyFat, 33))
  THEN OnlyFatLoss
  ELSE IF \/ (gender = "male" /\ Exceeds(bodyFat, 20) /\ AtMost(bodyFat, 22))
          \/ (gender = "female" /\ Exceeds(bodyFat, 28) /\ AtMost(bodyFat, 33))
  THEN NoWeightGain
  ELSE AllGoals

\* C3: getAllowedGoals returns exactly the set and the message of the band
\* that (gender, bodyFat) falls in: fat-loss alone above 22 (male) or 33
\* (female), the four goals without weight-gain above 20 up to 22 (male) or
\* above 28 up to 33 (female), all five goals otherwise.
C3_AllowedGoalsByBand ==
  probe.goalRestrictions # NULL =>
    LET expected == ExpectedGoals(probe.bodyFat, probe.gender)
        got == probe.goalRestrictions
    IN  /\ Elements(got.allowed) = expected.allowed
        /\ Len(got.allowed) = Cardinality(expected.allowed)
        /\ got.message = expected.message

\* C3 witness: a male at exactly 22 has been given the four-goal set, and
\* nothing but the three sets has been returned.
C3_Witness ==
  /\ probe.goalRestrictions # NULL
  /\ probe.gender = "male"
  /\ probe.bodyFat = Whole(22)
  /\ Elements(probe.goalRestrictions.allowed) = NoWeightGain.allowed

\* The category the threshold table of section 4.2 gives a number.
ExpectedCategory(bodyFat, gender) ==
  LET bounds == IF gender = "male" THEN <<13, 16, 20, 22>>
                ELSE <<16, 19, 28, 33>>
  IN  IF AtMost(bodyFat, bounds[1]) THEN "Excellent"
      ELSE IF AtMost(bodyFat, bounds[2]) THEN "Good"
      ELSE IF AtMost(bodyFat, bounds[3]) THEN "Average"
      ELSE IF AtMost(bodyFat, bounds[4]) THEN "Above Average"
      ELSE "Obese"

\* C4: for every number, getBodyFatCategory returns the first category, in
\* the order Excellent, Good, Average, Above Average, Obese, whose inclusive
\* upper bound (13/16/20/22 male, 16/19/28/33 female) the value does not
\* exceed, and Obese above the last bound.
C4_CategoryByInclusiveBounds ==
  (probe.category # NULL /\ probe.bodyFat.k # "NaN") =>
    probe.category.category = ExpectedCategory(probe.bodyFat, probe.gender)

\* C4 witness: a value exactly at a threshold has been classified into the
\* lower category (male 13 is Excellent).
C4_Witness ==
  /\ probe.category # NULL
  /\ probe.gender = "male"
  /\ probe.bodyFat = Whole(13)
  /\ probe.category.category = "Excellent"

\* C5: in every stored BaseResults the category is Obese exactly when the
\* allowed goals are fat-loss alone, Above Average exactly when they are the
\* four goals without weight-gain, and Excellent, Good or Average exactly
\* when all five goals are allowed.
C5_GoalsDeterminedByCategory ==
  baseResults # NULL =>
    LET allowed == Elements(baseResults.allowedGoals)
        category == baseResults.bodyFatCategory
    IN  /\ (category = "Obese") <=> (allowed = OnlyFatLoss.allowed)
        /\ (category = "Above Average") <=> (allowed = NoWeightGain.allowed)
        /\ (category \in {"Excellent", "Good", "Average"})
             <=> (allowed = AllGoals.allowed)

\* C6: whenever goalResults is held, its goal is one of the allowedGoals of
\* the baseResults held with it.
C6_GoalAmongAllowed ==
  goalResults # NULL =>
    /\ baseResults # NULL
    /\ goalResults.goal \in Elements(baseResults.allowedGoals)

\* C6 witness: a goal result is held next to a restricted goal set after a
\* later input change.
C6_Witness ==
  /\ goalResults # NULL
  /\ baseResults # NULL
  /\ Len(baseResults.allowedGoals) < 5
  /\ lastCall = "handleInputChange"

\* C7 as claimed: whenever baseResults is held it is the BaseResults of the
\* current formData.
C7_ResultsFollowInputs ==
  baseResults # NULL => baseResults = BaseResultsOf(formData)

\* C7 as amended: results are recomputed by calculateBaseStats alone. Right
\* after it baseResults is the BaseResults of the form as it stands and no
\* goal result is held; handleInputChange leaves baseResults and goalResults
\* as they were, so results of earlier inputs stay until the next click.
C7_RecomputedOnClickOnly ==
  [][ /\ lastCall' = "calculateBaseStats" =>
           /\ formData' = formData
           /\ baseResults' = BaseResultsOf(formData')
           /\ goalResults' = NULL
      /\ lastCall' = "handleInputChange" =>
           /\ baseResults' = baseResults
           /\ goalResults' = goalResults ]_vars

\* C7 witness: after an input change, results of the earlier inputs are held.
C7_Witness ==
  /\ lastCall = "handleInputChange"
  /\ baseResults # NULL
  /\ goalResults # NULL
  /\ baseResults # BaseResultsOf(formData)

\* The multiplier pairs of the goal table, in units of 1/Scale.
GoalMultipliers(goal) ==
  CASE goal = "maintenance" -> [calorie |-> 10000, protein |-> 10000]
    [] goal = "fat-loss" -> [calorie |-> 8000, protein |-> 12000]
    [] goal = "muscle-gain" -> [calorie |-> 11000, protein |-> 12500]
    [] goal = "weight-gain" -> [calorie |-> 12000, protein |-> 12000]
    [] goal = "recomposition" -> [calorie |-> 10000, protein |-> 12500]

\* target / base is the multiplier m, within one unit of the resolution.
RatioIs(target, base, m) ==
  (base.k = "num" /\ base.v >= Scale) =>
    /\ target.k = "num"
    /\ m - 1 <= DivFix(target.v, base.v)
    /\ DivFix(target.v, base.v) <= m

\* C8: the stored targets are baseCalories times the goal's calorie
\* multiplier and baseProtein times its protein multiplier, each with its
\* own multiplier, so that target / base is that multiplier.
C8_TargetsByMultiplier ==
  (goalResults # NULL /\ baseResults # NULL) =>
    LET m == GoalMultipliers(goalResults.goal)
    IN  /\ goalResults.revisedCalorieTarget
             = JsMul(baseResults.baseCalories, Num(m.calorie))
        /\ goalResults.revisedProteinTarget
             = JsMul(baseResults.baseProtein, Num(m.protein))
        /\ RatioIs(goalResults.revisedCalorieTarget,
                   baseResults.baseCalories, m.calorie)
        /\ RatioIs(goalResults.revisedProteinTarget,
                   baseResults.baseProtein, m.protein)

\* C8 witness: fat-loss targets are held for positive base values.
C8_Witness ==
  /\ goalResults # NULL
  /\ goalResults.goal = "fat-loss"
  /\ baseResults.baseCalories.k = "num" /\ baseResults.baseCalories.v > 0
  /\ baseResults.baseProtein.k = "num" /\ baseResults.baseProtein.v > 0

\* The activity factor and the protein multiplier of a level, in 1/Scale.
ActivityFactor(level) ==
  CASE level = "sedentary" -> 12000 [] level = "1-2x" -> 13750
    [] level = "3-5x" -> 15500 [] level = "daily" -> 17250
    [] level = "twice-daily" -> 19000

ProteinMultiplier(level) ==
  CASE level = "sedentary" -> 12000 [] level = "1-2x" -> 15000
    [] level = "3-5x" -> 17000 [] level = "daily" -> 19500
    [] level = "twice-daily" -> 22000

\* C9: the stored leanBodyMass is weight x (1 - bodyFat / 100) of the stored
\* body fat, baseCalories is (370 + 21.6 x leanBodyMass) x the activity
\* factor, and baseProtein is weight x the protein multiplier.
C9_BaselineTargets ==
  baseResults # NULL =>
    LET bf == baseResults.bodyFatPercentage
        lean == JsMul(formData.weight,
                      JsSub(Whole(1), JsDiv(bf, Whole(100))))
        level == formData.exerciseLevel
    IN  /\ baseResults.leanBodyMass = lean
        /\ baseResults.baseCalories
             = JsMul(JsAdd(Whole(370), JsMul(Num(216000), lean)),
                     Num(ActivityFactor(level)))
        /\ baseResults.baseProtein
             = JsMul(formData.weight, Num(ProteinMultiplier(level)))

\* C9 witness: base results are held for a level whose two tables differ and
\* a body fat strictly inside the clamp.
C9_Witness ==
  /\ baseResults # NULL
  /\ formData.exerciseLevel = "daily"
  /\ formData.weight.v > 0
  /\ baseResults.bodyFatPercentage.k = "num"
  /\ baseResults.bodyFatPercentage.v > 0
  /\ baseResults.bodyFatPercentage.v < 50 * Scale

\* C10: a goal result is never held without a base result, and
\* calculateGoalResults called while baseResults is null changes nothing:
\* goalResults stays null and selectedGoal stays empty.
C10_GoalNeedsBase ==
  /\ [](goalResults # NULL => baseResults # NULL)
  /\ [][ (lastCall' = "calculateGoalResults" /\ baseResults = NULL) =>
           /\ goalResults' = NULL
           /\ selectedGoal' = ""
           /\ baseResults' = NULL
           /\ formData' = formData ]_vars

\* C10 witness: calculateGoalResults has been called with no base result.
C10_Witness ==
  /\ lastCall = "calculateGoalResults"
  /\ baseResults = NULL
  /\ goalResults = NULL
  /\ selectedGoal = ""

\* C11: with a base result held, calculateGoalResults(goal) stores, for any
\* of the five goal keys, allowed or not, the goal result of that goal: the
\* base values times the goal's multipliers, whatever allowedGoals holds.
C11_NoEligibilityCheck ==
  [][ \A goal \in GoalKeys :
        (baseResults # NULL /\ calculateGoalResults(goal)) =>
          /\ goalResults' =
               [goal |-> goal,
                revisedCalorieTarget |->
                  JsMul(baseResults.baseCalories,
                        Num(GoalMultipliers(goal).calorie)),
                revisedProteinTarget |->
                  JsMul(baseResults.baseProtein,
                        Num(GoalMultipliers(goal).protein))]
          /\ selectedGoal' = goal ]_vars

\* C11 witness: a goal result is held for a goal that is not allowed.
C11_Witness ==
  /\ lastCall = "calculateGoalResults"
  /\ baseResults # NULL
  /\ goalResults # NULL
  /\ goalResults.goal = "weight-gain"
  /\ selectedGoal = "weight-gain"
  /\ ~Includes(baseResults.allowedGoals, "weight-gain")
  /\ baseResults.baseCalories.k = "num"

\* The place of a category in the order Excellent < ... < Obese.
CategoryRank(category) ==
  CASE category = "Excellent" -> 1 [] category = "Good" -> 2
    [] category = "Average" -> 3 [] category = "Above Average" -> 4
    [] category = "Obese" -> 5

\* a <= b on numbers other than NaN.
NotAbove(a, b) ==
  /\ a.k # "NaN" /\ b.k # "NaN"
  /\ \/ a.k = "-Infinity"
     \/ b.k = "Infinity"
     \/ (a.k = "num" /\ b.k = "num" /\ a.v <= b.v)

\* C12: for a fixed gender and body-fat values a <= b, the category of b is
\* never lower than the category of a.
C12_CategoryMonotonic ==
  probe.category # NULL =>
    \A a \in ProbeBodyFat :
      NotAbove(a, probe.bodyFat) =>
        CategoryRank(getBodyFatCategory(a, probe.gender).category)
          <= CategoryRank(probe.category.category)

\* C12 witness: a value has been classified above the category of a smaller
\* value, and level with the category of another smaller value.
C12_Witness ==
  /\ probe.category # NULL
  /\ probe.gender = "female"
  /\ probe.bodyFat = Whole(30)
  /\ probe.category.category = "Above Average"
  /\ getBodyFatCategory(Whole(28), "female").category = "Average"
  /\ getBodyFatCategory(Num(28 * Scale + 1), "female").category = "Above Average"

\* C13: for every valid measurement the stored leanBodyMass equals the
\* weight exactly when the stored bodyFatPercentage is 0.
C13_LeanMassIsWeightAtZero ==
  (baseResults # NULL /\ ValidMeasurement(formData)) =>
    ((baseResults.leanBodyMass = formData.weight)
       <=> (baseResults.bodyFatPercentage = Num(0)))

\* C13 witness: a valid measurement whose raw value is below zero is held
\* with body fat 0 and the whole weight as lean mass.
C13_Witness ==
  /\ baseResults # NULL
  /\ ValidMeasurement(formData)
  /\ JsLt(calculateBodyFat(formData), Num(0))
  /\ calculateBodyFat(formData).k = "num"
  /\ baseResults.bodyFatPercentage = Num(0)
  /\ baseResults.leanBodyMass = formData.weight

\* C14: the base result calculateBaseStats leaves is that of the form as it
\* stands, whatever base result, goal result and selection were held before,
\* and calculateBaseStats run again with no input change leaves the same
\* base result.
C14_BaseStatsIdempotent ==
  /\ [](lastCall = "calculateBaseStats" =>
          baseResults = BaseResultsOf(formData))
  /\ [][ (lastCall = "calculateBaseStats"
            /\ lastCall' = "calculateBaseStats") =>
           baseResults' = baseResults ]_vars

\* C14 witness: calculateBaseStats has run on a form that was changed since
\* the page was built.
C14_Witness ==
  /\ lastCall = "calculateBaseStats"
  /\ formData.waist # InitialFormData.waist
  /\ formData.gender # InitialFormData.gender
  /\ baseResults # NULL

\* The initial form values with the waist changed to 100 cm.
Waist100FormData == [InitialFormData EXCEPT !.waist = Whole(100)]

\* calculateBaseStats has just run on the given form contents.
JustCalculated(data) ==
  /\ lastCall = "calculateBaseStats"
  /\ formData = data
  /\ baseResults # NULL

\* baseCalories is (370 + 21.6 x leanBodyMass) x 1.2 of the stored lean mass.
SedentaryCalories(base) ==
  base.baseCalories
    = JsMul(JsAdd(Whole(370), JsMul(Num(216000), base.leanBodyMass)),
            Num(12000))

\* C15 as claimed: for the initial form values calculateBaseStats yields a
\* body fat between 18.0 and 19.0, category Average, a lean mass between 57
\* and 58 kg and baseCalories = (370 + 21.6 x leanMass) x 1.2.
C15_InitialFormScenario ==
  JustCalculated(InitialFormData) =>
    /\ Within(baseResults.bodyFatPercentage, 18, 19)
    /\ baseResults.bodyFatCategory = "Average"
    /\ Within(baseResults.leanBodyMass, 57, 58)
    /\ SedentaryCalories(baseResults)

\* C15 as amended: for the initial form values calculateBaseStats yields a
\* body fat between 15.0 and 16.0, category Good, a lean mass between 59 and
\* 60 kg and baseCalories = (370 + 21.6 x leanMass) x 1.2.
C15_InitialFormScenarioAmended ==
  JustCalculated(InitialFormData) =>
    /\ Within(baseResults.bodyFatPercentage, 15, 16)
    /\ baseResults.bodyFatCategory = "Good"
    /\ Within(baseResults.leanBodyMass, 59, 60)
    /\ SedentaryCalories(baseResults)

\* C15 witness: calculateBaseStats has run on the initial form values.
C15_Witness ==
  /\ JustCalculated(InitialFormData)
  /\ baseResults.bodyFatPercentage.k = "num"
  /\ goalResults = NULL

\* C16: for the initial form values with waist 100 cm calculateBaseStats
\* yields a body fat above 22, category Obese and fat-loss as the only
\* allowed goal, and next to such a base result no goal result other than
\* that of fat-loss comes to be held.
C16_Waist100Scenario ==
  /\ JustCalculated(Waist100FormData) =>
       /\ Exceeds(baseResults.bodyFatPercentage, 22)
       /\ baseResults.bodyFatCategory = "Obese"
       /\ baseResults.allowedGoals = <<"fat-loss">>
  /\ (baseResults = BaseResultsOf(Waist100FormData) /\ goalResults # NULL) =>
       goalResults.goal = "fat-loss"

\* C16 witness: the fat-loss targets are held for the waist-100 form.
C16_Witness ==
  /\ formData = Waist100FormData
  /\ baseResults = BaseResultsOf(Waist100FormData)
  /\ baseResults.bodyFatCategory = "Obese"
  /\ goalResults # NULL
  /\ goalResults.goal = "fat-loss"
  /\ lastCall = "calculateGoalResults"

\* C17: right after every calculateBaseStats, whatever was held before, no
\* goal result is held and no goal is selected.
C17_BaseStatsResetsGoalStep ==
  /\ [](lastCall = "calculateBaseStats" =>
          (goalResults = NULL /\ selectedGoal = ""))
  /\ [][ lastCall' = "calculateBaseStats" =>
           (goalResults' = NULL /\ selectedGoal' = "") ]_vars

\* C17 witness: calculateBaseStats has run again on a changed form and has
\* left a new base result with the goal step empty.
C17_Witness ==
  /\ lastCall = "calculateBaseStats"
  /\ formData # InitialFormData
  /\ baseResults # NULL
  /\ baseResults.bodyFatCategory = "Obese"
  /\ goalResults = NULL
  /\ selectedGoal = ""

\* C18: whenever a goal result is held, its targets are the baseCalories and
\* the baseProtein of the base result held now, times the multipliers of its
\* goal.
C18_TargetsOfHeldBase ==
  goalResults # NULL =>
    /\ baseResults # NULL
    /\ goalResults.revisedCalorieTarget =
         JsMul(baseResults.baseCalories,
               Num(GoalMultipliers(goalResults.goal).calorie))
    /\ goalResults.revisedProteinTarget =
         JsMul(baseResults.baseProtein,
               Num(GoalMultipliers(goalResults.goal).protein))

\* C18 witness: muscle-gain targets stay held after a later input change,
\* next to positive base values.
C18_Witness ==
  /\ goalResults # NULL
  /\ goalResults.goal = "muscle-gain"
  /\ lastCall = "handleInputChange"
  /\ baseResults # BaseResultsOf(formData)
  /\ baseResults.baseCalories.k = "num"
  /\ baseResults.baseCalories.v > 0
  /\ goalResults.revisedCalorieTarget.v > baseResults.baseCalories.v

\* C19: selectedGoal is empty exactly when no goal result is held, and
\* otherwise it is the goal of the goal result held.
C19_SelectionMatchesGoalResult ==
  /\ (selectedGoal = "") <=> (goalResults = NULL)
  /\ goalResults # NULL => selectedGoal = goalResults.goal

\* C19 witness: a second goal has been selected and is the one held.
C19_Witness ==
  /\ goalResults # NULL
  /\ selectedGoal = "recomposition"
  /\ goalResults.goal = "recomposition"
  /\ lastCall = "calculateGoalResults"

\* The argument calculateBodyFat passes to the first Math.log10.
LogArgument(data) ==
  LET waistInches == JsDiv(data.waist, Num(25400))
      neckInches == JsDiv(data.neck, Num(25400))
      hipInches == JsDiv(data.hip, Num(25400))
  IN  IF data.gender = "male"
      THEN JsSub(waistInches, neckInches)
      ELSE JsSub(JsAdd(waistInches, hipInches), neckInches)

\* The measurements held are those of a logarithm argument of exactly zero
\* with a height above zero.
LogArgumentZero(data) ==
  /\ LogArgument(data) = Num(0)
  /\ data.height.k = "num"
  /\ data.height.v > 0

C21_InputChangeFrame ==
  [][ lastCall' = "handleInputChange" =>
        /\ \E e \in InputEvents :
             /\ formData'[e.field] = e.value
             /\ \A f \in (DOMAIN formData) \ {e.field} :
                  formData'[f] = formData[f]
        /\ baseResults' = baseResults
        /\ goalResults' = goalResults
        /\ selectedGoal' = selectedGoal ]_vars

\* C21 witness: an input change made with results held, on a form that
\* earlier changes had already moved away from its initial values in two
\* other fields.
C21_Witness ==
  /\ lastCall = "handleInputChange"
  /\ formData.gender = "female"
  /\ formData.waist = Whole(100)
  /\ formData.weight = Whole(90)
  /\ baseResults # NULL
  /\ baseResults # BaseResultsOf(formData)
  /\ goalResults # NULL
  /\ selectedGoal = "fat-loss"

\* C22: every calculateGoalResults leaves formData and baseResults as they
\* were, and with a base result held the goal result it leaves is that of the
\* goal selected last, computed from the base values, whatever goal result
\* was held before.
C22_GoalSelectionFrame ==
  [][ lastCall' = "calculateGoalResults" =>
        /\ formData' = formData
        /\ baseResults' = baseResults
        /\ baseResults # NULL =>
             \E goal \in GoalKeys :
               /\ selectedGoal' = goal
               /\ goalResults' =
                    [goal |-> goal,
                     revisedCalorieTarget |->
                       JsMul(baseResults.baseCalories,
                             Num(GoalMultipliers(goal).calorie)),
                     revisedProteinTarget |->
                       JsMul(baseResults.baseProtein,
                             Num(GoalMultipliers(goal).protein))] ]_vars

\* C22 witness: fat-loss targets held after a selection, 0.8 and 1.2 times
\* positive base values, with other goals permitted as well.
C22_Witness ==
  /\ lastCall = "calculateGoalResults"
  /\ goalResults # NULL
  /\ goalResults.goal = "fat-loss"
  /\ Len(baseResults.allowedGoals) > 1
  /\ baseResults.baseCalories.k = "num"
  /\ baseResults.baseCalories.v > 0
  /\ goalResults.revisedCalorieTarget.v < baseResults.baseCalories.v
  /\ goalResults.revisedProteinTarget.v > baseResults.baseProtein.v

\* Ages and hip sizes a second form state may hold instead.
OtherAges == {Whole(n) : n \in {18, 40, 65, 0}}

OtherHips == {Whole(n) : n \in {95, 30, 120, 0}}

\* The base result and the goal result held are those the form data `other`
\* gives as well.
SameResults(other) ==
  /\ baseResults = BaseResultsOf(other)
  /\ goalResults # NULL =>
       goalResults = GoalResultsOf(BaseResultsOf(other), goalResults.goal)

\* C23: the results computed from a form are those computed from any form
\* that differs from it in age only and, for a male, from any form that
\* differs from it in hip only.
C23_AgeAndMaleHipUnused ==
  baseResults # NULL =>
    /\ \A age \in OtherAges : SameResults([formData EXCEPT !.age = age])
    /\ formData.gender = "male" =>
         \A hip \in OtherHips : SameResults([formData EXCEPT !.hip = hip])

\* C23 witness: results held for a male with ordinary measurements whose hip
\* is not the initial one, and whose hip would matter were he female.
C23_Witness ==
  /\ baseResults # NULL
  /\ goalResults # NULL
  /\ formData.gender = "male"
  /\ formData.hip = Whole(30)
  /\ Within(baseResults.bodyFatPercentage, 1, 49)
  /\ baseResults.baseCalories.k = "num"
  /\ BaseResultsOf([formData EXCEPT !.gender = "female"])
       # BaseResultsOf([formData EXCEPT !.gender = "female",
                                        !.hip = Whole(95)])

\* C24: whenever a base result is held its allowedGoals contains fat-loss,
\* a click on an enabled goal button that leaves the fat-loss targets is
\* possible, and every goal selection made with a base result held leaves a
\* goal result.
C24_StepTwoCompletable ==
  /\ [](baseResults # NULL =>
          /\ Includes(baseResults.allowedGoals, "fat-loss")
          /\ ENABLED (/\ GoalClick
                      /\ goalResults' # NULL
                      /\ goalResults'.goal = "fat-loss"))
  /\ [][ (baseResults # NULL /\ lastCall' = "calculateGoalResults") =>
           goalResults' # NULL ]_vars

\* C24 witness: fat-loss selected next to a base result whose body fat is
\* not a number.
C24_Witness ==
  /\ baseResults # NULL
  /\ IsNaN(baseResults.bodyFatPercentage)
  /\ Includes(baseResults.allowedGoals, "fat-loss")
  /\ lastCall = "calculateGoalResults"
  /\ goalResults # NULL
  /\ goalResults.goal = "fat-loss"

\* The base calories and the base protein held are numbers above zero.
PositiveBase ==
  /\ baseResults # NULL
  /\ baseResults.baseCalories.k = "num"
  /\ baseResults.baseCalories.v > 0
  /\ baseResults.baseProtein.k = "num"
  /\ baseResults.baseProtein.v > 0

\* C25: for positive base values, maintenance targets equal the base calories
\* and the base protein, the recomposition calorie target equals the base
\* calories, the calorie target is below the base calories for fat-loss and
\* for no other goal, and no protein target is below the base protein.
C25_GoalTargetsAgainstBase ==
  (goalResults # NULL /\ PositiveBase) =>
    LET calories == goalResults.revisedCalorieTarget
        protein == goalResults.revisedProteinTarget
    IN  /\ calories.k = "num"
        /\ protein.k = "num"
        /\ goalResults.goal = "maintenance" =>
             /\ calories = baseResults.baseCalories
             /\ protein = baseResults.baseProtein
        /\ goalResults.goal = "recomposition" =>
             calories = baseResults.baseCalories
        /\ (calories.v < baseResults.baseCalories.v)
             <=> (goalResults.goal = "fat-loss")
        /\ protein.v >= baseResults.baseProtein.v

\* C25 witness: weight-gain targets held above positive base values.
C25_Witness ==
  /\ goalResults # NULL
  /\ PositiveBase
  /\ goalResults.goal = "weight-gain"
  /\ goalResults.revisedCalorieTarget.v > baseResults.baseCalories.v
  /\ goalResults.revisedProteinTarget.v > baseResults.baseProtein.v
  /\ baseResults.bodyFatCategory = "Good"

====
